---- MODULE Spec2Model ----
(***************************************************************************)
(* A model of the Migration class of 04Utils (src/src/color.ts, 81-214):   *)
(* the table name, the ordered field list and the constraints of one       *)
(* instance, the statements it sends to the injected query function, and   *)
(* what each method returns or throws for every outcome of that function.  *)
(*                                                                         *)
(* Each method is one action: the statement is built from the current      *)
(* state, the query function settles (resolves with a value or rejects     *)
(* with an error, chosen with \E), and the rest of the method body runs.   *)
(* migrate is split at its only suspension point, the awaited callback:    *)
(* the methods the callback calls on the instance are the same actions.    *)
(***************************************************************************)
EXTENDS Integers, Sequences, FiniteSets, TLC

(***************************************************************************)
(* Bounds and input domains.                                               *)
(***************************************************************************)
MaxFields == 2

\* the table argument of the constructor
InitialTables == {"test_table"}

\* the names a table can be renamed to
TableNames == {"test_table", "new_test_table"}

ColumnNames == {"id", "name"}

TypeLists == {<<"INT">>, <<"VARCHAR(255)", "NOT NULL">>}

ConstraintLists == {<<>>, <<"FOREIGN KEY (user_id) REFERENCES users(id)">>}

(***************************************************************************)
(* JavaScript values.  Every value is a record tagged by t.                *)
(***************************************************************************)
Undefined == [t |-> "undefined"]

Null == [t |-> "null"]

Bool(b) == [t |-> "boolean", v |-> b]

Num(n) == [t |-> "number", v |-> n]

Str(s) == [t |-> "string", v |-> s]

Arr(elems) == [t |-> "array", elems |-> elems]

\* what the query function resolves with: { rows: ... }
ResultObj(rows) == [t |-> "object", rows |-> rows]

\* one row of a result: { exists: ... }
RowObj(exists) == [t |-> "object", exists |-> exists]

\* what the query function rejects with: an object carrying sqlMessage
\* and message (either may be missing, i.e. undefined)
ErrObj(sqlMessage, message) ==
    [t |-> "error", sqlMessage |-> sqlMessage, message |-> message]

IsNullish(x) == x.t \in {"undefined", "null"}

\* x.k for a non-nullish x: a missing property reads as undefined
Prop(x, k) == IF k \in DOMAIN x THEN x[k] ELSE Undefined

\* a[0] for a non-nullish a
Index0(a) == IF a.t = "array" /\ Len(a.elems) >= 1 THEN a.elems[1] ELSE Undefined

\* ToBoolean, as used by ||
Truthy(x) ==
    CASE x.t \in {"undefined", "null"} -> FALSE
      [] x.t = "boolean" -> x.v
      [] x.t = "number" -> x.v # 0
      [] x.t = "string" -> x.v # ""
      [] OTHER -> TRUE

\* a || b
OrElse(a, b) == IF Truthy(a) THEN a ELSE b

\* a ?? b
Coalesce(a, b) == IF IsNullish(a) THEN b ELSE a

\* the message of new Error(x): "" for undefined, the string otherwise
ErrorMessage(x) == IF x.t = "string" THEN x.v ELSE ""

\* the message of the TypeError raised by reading property k of undefined/null
TypeErrorMessage(x, k) ==
    "Cannot read properties of " \o x.t \o " (reading '" \o k \o "')"

(***************************************************************************)
(* Values the query function and a migrate callback can settle with.       *)
(***************************************************************************)
ExistsValues == {Undefined, Bool(TRUE), Bool(FALSE), Num(1)}

\* results of the catalog query of tableExists
ExistsResults ==
    {Undefined, Null, ResultObj(Undefined), ResultObj(Arr(<<>>))}
      \cup {ResultObj(Arr(<<RowObj(e)>>)) : e \in ExistsValues}

\* result of a statement whose result the method ignores
DdlResults == {ResultObj(Arr(<<RowObj(Bool(TRUE))>>))}

\* results of an arbitrary statement
SqlResults == {Arr(<<[t |-> "object", id |-> Num(1)]>>)}

ErrorValues ==
    {ErrObj(Undefined, Str("fail")),
     ErrObj(Str("ER_DUP_FIELDNAME"), Str("fail")),
     ErrObj(Str(""), Str("fail")),
     ErrObj(Undefined, Undefined)}

Resolved(value) == [settled |-> "resolved", value |-> value]

Rejected(error) == [settled |-> "rejected", error |-> error]

Settlements(values) ==
    {Resolved(v) : v \in values} \cup {Rejected(e) : e \in ErrorValues}

(***************************************************************************)
(* Field-definition objects ({ name: [tokens...] }): the keys in insertion *)
(* order and the value of each key.                                        *)
(***************************************************************************)
Range(q) == {q[i] : i \in DOMAIN q}

EmptyObject == [keys |-> <<>>, val |-> [k \in {} |-> <<>>]]

\* an assignment that does not overwrite a key already present
Assign_keepFirst(o, k, v) ==
    IF k \in Range(o.keys) THEN o
    ELSE [keys |-> Append(o.keys, k),
          val |-> [x \in (DOMAIN o.val) \cup {k} |-> IF x = k THEN v ELSE o.val[x]]]

\* o[k] = v
Assign(o, k, v) ==
    [keys |-> IF k \in Range(o.keys) THEN o.keys ELSE Append(o.keys, k),
     val |-> [x \in (DOMAIN o.val) \cup {k} |-> IF x = k THEN v ELSE o.val[x]]]

\* Object.entries(o)
ObjectEntries(o) == [i \in 1..Len(o.keys) |-> <<o.keys[i], o.val[o.keys[i]]>>]

UniqueSeqs(S) ==
    {q \in UNION {[1..n -> S] : n \in 0..Cardinality(S)} :
        \A i, j \in DOMAIN q : i # j => q[i] # q[j]}

FieldMaps ==
    UNION {{[keys |-> ks, val |-> f] : f \in [Range(ks) -> TypeLists]} :
             ks \in UniqueSeqs(ColumnNames)}

(***************************************************************************)
(* The state of one Migration instance and of its last method call.        *)
(***************************************************************************)
VARIABLES table, fields, constraints, call, sent, settled, outcome, mig, printed

\* table        this.table
\* fields       this.fields: a sequence of [fieldName, type]
\* constraints  this.constraints
\* call         the last method called (the constructor at first), with its arguments
\* sent         the calls of this.queryFn made by the body of that method
\* settled      how the promise that method awaited settled
\* outcome      what that method returned or threw
\* mig          the migrate call in progress, if any, and the calls of its callback
\* printed      the lines color() has written with console.log
vars == <<table, fields, constraints, call, sent, settled, outcome, mig, printed>>

Self == "this"

Returned(value) == [status |-> "returned", value |-> value]

Threw(message) == [status |-> "threw", message |-> message]

\* Array.prototype.join
RECURSIVE join(_, _)
join(q, sep) ==
    IF q = <<>> THEN ""
    ELSE IF Len(q) = 1 THEN Head(q)
    ELSE Head(q) \o sep \o join(Tail(q), sep)

\* a catch block that reads only error.message
catch_messageOnly(error) ==
    IF IsNullish(error)
    THEN Threw(TypeErrorMessage(error, "message"))
    ELSE Threw(ErrorMessage(Prop(error, "message")))

\* catch (error) { throw new Error(error.sqlMessage || error.message); }
catch(error) ==
    IF IsNullish(error)
    THEN Threw(TypeErrorMessage(error, "sqlMessage"))
    ELSE Threw(ErrorMessage(OrElse(Prop(error, "sqlMessage"), Prop(error, "message"))))

\* one call this.queryFn(query) or this.queryFn(query, params)
QueryCall(query, params) == [query |-> query, params |-> params]

\* a constructor that loses the last entry of the map
constructorFields_dropLast(fieldDefinitions) ==
    [i \in 1..(Len(ObjectEntries(fieldDefinitions)) - 1) |->
        [fieldName |-> ObjectEntries(fieldDefinitions)[i][1],
         type |-> ObjectEntries(fieldDefinitions)[i][2]]]

constructorFields(fieldDefinitions) ==
    [i \in 1..Len(ObjectEntries(fieldDefinitions)) |->
        [fieldName |-> ObjectEntries(fieldDefinitions)[i][1],
         type |-> ObjectEntries(fieldDefinitions)[i][2]]]

constructor(t, fieldDefinitions, cs) ==
    /\ table = t
    /\ fields = constructorFields(fieldDefinitions)
    /\ constraints = cs
    /\ call = [method |-> "constructor", table |-> t,
               fieldDefinitions |-> fieldDefinitions, constraints |-> cs]
    /\ sent = <<>>
    /\ settled = [settled |-> "none"]
    /\ outcome = Returned(Undefined)
    /\ mig = [phase |-> "idle", invoked |-> <<>>]

Init ==
    /\ \E t \in InitialTables, fieldDefinitions \in FieldMaps, cs \in ConstraintLists :
          constructor(t, fieldDefinitions, cs)
    /\ printed = <<>>

\* the constraints placed before the columns
createTableQuery_constraintsFirst ==
    LET fieldDefs == [i \in 1..Len(fields) |->
                        fields[i].fieldName \o " " \o join(fields[i].type, " ")]
        allDefs == constraints \o fieldDefs
    IN "CREATE TABLE " \o table \o " (\n  " \o join(allDefs, ",\n  ") \o "\n);"

createTableQuery ==
    LET fieldDefs == [i \in 1..Len(fields) |->
                        fields[i].fieldName \o " " \o join(fields[i].type, " ")]
        allDefs == fieldDefs \o constraints
    IN "CREATE TABLE " \o table \o " (\n  " \o join(allDefs, ",\n  ") \o "\n);"

createTable ==
    \E s \in Settlements(DdlResults) :
        /\ call' = [method |-> "createTable"]
        /\ sent' = <<QueryCall(createTableQuery, Undefined)>>
        /\ settled' = s
        /\ outcome' = IF s.settled = "resolved" THEN Returned(Undefined) ELSE catch(s.error)
        /\ UNCHANGED <<table, fields, constraints, mig, printed>>

dropTableQuery == "DROP TABLE IF EXISTS " \o table

dropTable ==
    \E s \in Settlements(DdlResults) :
        /\ call' = [method |-> "dropTable"]
        /\ sent' = <<QueryCall(dropTableQuery, Undefined)>>
        /\ settled' = s
        /\ outcome' = IF s.settled = "resolved" THEN Returned(Undefined) ELSE catch(s.error)
        /\ UNCHANGED <<table, fields, constraints, mig, printed>>

truncateTableQuery == "TRUNCATE TABLE " \o table

truncateTable ==
    \E s \in Settlements(DdlResults) :
        /\ call' = [method |-> "truncateTable"]
        /\ sent' = <<QueryCall(truncateTableQuery, Undefined)>>
        /\ settled' = s
        /\ outcome' = IF s.settled = "resolved" THEN Returned(Undefined) ELSE catch(s.error)
        /\ UNCHANGED <<table, fields, constraints, mig, printed>>

addColumnQuery(fieldName, type) ==
    "ALTER TABLE " \o table \o " ADD COLUMN " \o fieldName \o " " \o join(type, " ")

\* the push placed before the await
addColumnFields_pushFirst(fieldName, type, s) ==
    Append(fields, [fieldName |-> fieldName, type |-> type])

\* this.fields.push({ fieldName, type }), reached only when the await did not throw
addColumnFields(fieldName, type, s) ==
    IF s.settled = "resolved"
    THEN Append(fields, [fieldName |-> fieldName, type |-> type])
    ELSE fields

addColumn ==
    \E fieldName \in ColumnNames, type \in TypeLists, s \in Settlements(DdlResults) :
        /\ Len(fields) < MaxFields
        /\ call' = [method |-> "addColumn", fieldName |-> fieldName, type |-> type]
        /\ sent' = <<QueryCall(addColumnQuery(fieldName, type), Undefined)>>
        /\ settled' = s
        /\ fields' = addColumnFields(fieldName, type, s)
        /\ outcome' = IF s.settled = "resolved" THEN Returned(Undefined) ELSE catch(s.error)
        /\ UNCHANGED <<table, constraints, mig, printed>>

dropColumnQuery(columnName) ==
    "ALTER TABLE " \o table \o " DROP COLUMN " \o columnName

\* a removal of the first matching entry only
dropColumnFields_firstOnly(columnName, s) ==
    IF s.settled = "resolved" /\ \E i \in DOMAIN fields : fields[i].fieldName = columnName
    THEN LET first == CHOOSE i \in DOMAIN fields :
                        /\ fields[i].fieldName = columnName
                        /\ \A j \in 1..(i - 1) : fields[j].fieldName # columnName
         IN SubSeq(fields, 1, first - 1) \o SubSeq(fields, first + 1, Len(fields))
    ELSE fields

\* this.fields = this.fields.filter(...), reached only when the await did not throw
dropColumnFields(columnName, s) ==
    IF s.settled = "resolved"
    THEN SelectSeq(fields, LAMBDA field : field.fieldName # columnName)
    ELSE fields

dropColumn ==
    \E columnName \in ColumnNames, s \in Settlements(DdlResults) :
        /\ call' = [method |-> "dropColumn", columnName |-> columnName]
        /\ sent' = <<QueryCall(dropColumnQuery(columnName), Undefined)>>
        /\ settled' = s
        /\ fields' = dropColumnFields(columnName, s)
        /\ outcome' = IF s.settled = "resolved" THEN Returned(Undefined) ELSE catch(s.error)
        /\ UNCHANGED <<table, constraints, mig, printed>>

renameTableQuery(newTableName) ==
    "ALTER TABLE " \o table \o " RENAME TO " \o newTableName

\* the assignment placed before the await
renameTableTable_assignFirst(newTableName, s) == newTableName

\* this.table = newTableName, reached only when the await did not throw
renameTableTable(newTableName, s) ==
    IF s.settled = "resolved" THEN newTableName ELSE table

renameTable ==
    \E newTableName \in TableNames, s \in Settlements(DdlResults) :
        /\ call' = [method |-> "renameTable", newTableName |-> newTableName]
        /\ sent' = <<QueryCall(renameTableQuery(newTableName), Undefined)>>
        /\ settled' = s
        /\ table' = renameTableTable(newTableName, s)
        /\ outcome' = IF s.settled = "resolved" THEN Returned(Undefined) ELSE catch(s.error)
        /\ UNCHANGED <<fields, constraints, mig, printed>>

tableExistsQuery ==
    "SELECT EXISTS (\n                    SELECT 1 FROM information_schema.tables \n"
      \o "                    WHERE table_name = '" \o table \o "'\n                )"

\* return result.rows?.[0]?.exists ?? false, inside the try block: the
\* TypeError of reading rows of undefined/null is caught by the catch block
tableExistsReturn(result) ==
    IF IsNullish(result)
    THEN catch(ErrObj(Undefined, Str(TypeErrorMessage(result, "rows"))))
    ELSE LET rows == Prop(result, "rows")
             row == IF IsNullish(rows) THEN Undefined ELSE Index0(rows)
             exists == IF IsNullish(row) THEN Undefined ELSE Prop(row, "exists")
         IN Returned(Coalesce(exists, Bool(FALSE)))

tableExists ==
    \E s \in Settlements(ExistsResults) :
        /\ call' = [method |-> "tableExists"]
        /\ sent' = <<QueryCall(tableExistsQuery, Undefined)>>
        /\ settled' = s
        /\ outcome' = IF s.settled = "resolved" THEN tableExistsReturn(s.value) ELSE catch(s.error)
        /\ UNCHANGED <<table, fields, constraints, mig, printed>>

SqlCalls ==
    {QueryCall("SELECT * FROM test", Undefined),
     QueryCall("DELETE FROM test WHERE id = $1", Arr(<<Num(1)>>))}

\* a sql that sends the statement again when the first call is rejected
sqlSent_retry(query, params, s) ==
    IF s.settled = "rejected"
    THEN <<QueryCall(query, params), QueryCall(query, params)>>
    ELSE <<QueryCall(query, params)>>

\* const result = await this.queryFn(query, params): the one call of sql
sqlSent(query, params, s) == <<QueryCall(query, params)>>

sql ==
    \E c \in SqlCalls, s \in Settlements(SqlResults) :
        /\ call' = [method |-> "sql", query |-> c.query, params |-> c.params]
        /\ sent' = sqlSent(c.query, c.params, s)
        /\ settled' = s
        /\ outcome' = IF s.settled = "resolved" THEN Returned(s.value) ELSE catch(s.error)
        /\ UNCHANGED <<table, fields, constraints, mig, printed>>

\* this.fields.reduce((acc, field) => { acc[field.fieldName] = field.type; return acc; }, {})
RECURSIVE reduceFields(_, _)
reduceFields(fs, acc) ==
    IF fs = <<>> THEN acc
    ELSE reduceFields(Tail(fs), Assign(acc, Head(fs).fieldName, Head(fs).type))

getFieldDefinitionsReturn == reduceFields(fields, EmptyObject)

getFieldDefinitions ==
    /\ call' = [method |-> "getFieldDefinitions"]
    /\ sent' = <<>>
    /\ settled' = [settled |-> "none"]
    /\ outcome' = Returned(getFieldDefinitionsReturn)
    /\ UNCHANGED <<table, fields, constraints, mig, printed>>

(***************************************************************************)
(* migrate(callback): the callback is called with this, and migrate        *)
(* resumes when the promise the callback returned settles.  Between the    *)
(* two the callback calls methods of the instance it was given.  A         *)
(* callback resolves with undefined, rejects with a value of its own, or   *)
(* lets the error of the method that just threw escape.  One migrate call  *)
(* is in progress at a time.                                               *)
(***************************************************************************)
\* await callback(this): the argument lists the callback is called with
migrateInvoke == <<<<Self>>>>

migrateCall ==
    /\ mig.phase = "idle"
    /\ mig' = [phase |-> "running", invoked |-> migrateInvoke]
    /\ UNCHANGED <<table, fields, constraints, call, sent, settled, outcome, printed>>

CallbackSettlements ==
    {Resolved(Undefined)} \cup {Rejected(e) : e \in ErrorValues}
      \cup (IF outcome.status = "threw"
            THEN {Rejected(ErrObj(Undefined, Str(outcome.message)))}
            ELSE {})

\* a migrate that swallows the failure of its callback
migrateOutcome_swallow(s) == Returned(Undefined)

migrateOutcome(s) == IF s.settled = "resolved" THEN Returned(Undefined) ELSE catch(s.error)

migrateSettle ==
    \E s \in CallbackSettlements :
        /\ mig.phase = "running"
        /\ mig' = [phase |-> "idle", invoked |-> <<>>]
        /\ call' = [method |-> "migrate", invoked |-> mig.invoked]
        /\ sent' = <<>>
        /\ settled' = s
        /\ outcome' = migrateOutcome(s)
        /\ UNCHANGED <<table, fields, constraints, printed>>

Next ==
    \/ createTable
    \/ dropTable
    \/ truncateTable
    \/ addColumn
    \/ dropColumn
    \/ renameTable
    \/ tableExists
    \/ sql
    \/ getFieldDefinitions
    \/ migrateCall
    \/ migrateSettle

Spec == Init /\ [][Next]_vars

TypeOK ==
    /\ table \in TableNames
    /\ Len(fields) <= MaxFields
    /\ constraints \in ConstraintLists
    /\ Len(sent) <= 1
    /\ outcome.status \in {"returned", "threw"}
    /\ mig.phase \in {"idle", "running"}

(***************************************************************************)
(* The console styling helper color(...messages) of src/src/utils/color.ts *)
(* (58-79).  A message is the tuple [text, color, style]: a missing        *)
(* element reads as undefined.  The escape character U+001B is written ^[. *)
(***************************************************************************)
MaxMessages == 2

Esc == "^["

\* the styles table (10-52)
styles ==
    [reset |-> Esc \o "[0m", bold |-> Esc \o "[1m", dim |-> Esc \o "[2m",
     italic |-> Esc \o "[3m", underline |-> Esc \o "[4m", blink |-> Esc \o "[5m",
     inverse |-> Esc \o "[7m", hidden |-> Esc \o "[8m", strikethrough |-> Esc \o "[9m",
     black |-> Esc \o "[30m", red |-> Esc \o "[31m", green |-> Esc \o "[32m",
     yellow |-> Esc \o "[33m", blue |-> Esc \o "[34m", magenta |-> Esc \o "[35m",
     cyan |-> Esc \o "[36m", white |-> Esc \o "[37m",
     brightBlack |-> Esc \o "[90m", brightRed |-> Esc \o "[91m",
     brightGreen |-> Esc \o "[92m", brightYellow |-> Esc \o "[93m",
     brightBlue |-> Esc \o "[94m", brightMagenta |-> Esc \o "[95m",
     brightCyan |-> Esc \o "[96m", brightWhite |-> Esc \o "[97m",
     bgBlack |-> Esc \o "[40m", bgRed |-> Esc \o "[41m", bgGreen |-> Esc \o "[42m",
     bgYellow |-> Esc \o "[43m", bgBlue |-> Esc \o "[44m", bgMagenta |-> Esc \o "[45m",
     bgCyan |-> Esc \o "[46m", bgWhite |-> Esc \o "[47m",
     bgBrightBlack |-> Esc \o "[100m", bgBrightRed |-> Esc \o "[101m",
     bgBrightGreen |-> Esc \o "[102m", bgBrightYellow |-> Esc \o "[103m",
     bgBrightBlue |-> Esc \o "[104m", bgBrightMagenta |-> Esc \o "[105m",
     bgBrightCyan |-> Esc \o "[106m", bgBrightWhite |-> Esc \o "[107m"]

\* styles is an object literal: a key it does not own is looked up in
\* Object.prototype, whose members are functions
ObjectPrototype ==
    [constructor |-> "function Object() { [native code] }",
     toString |-> "function toString() { [native code] }"]

\* styles[key] for a string key
stylesGet(key) ==
    IF key \in DOMAIN styles THEN Str(styles[key])
    ELSE IF key \in DOMAIN ObjectPrototype THEN [t |-> "function", src |-> ObjectPrototype[key]]
    ELSE Undefined

\* output += value, for the values stylesGet yields
StringOf(value) == IF value.t = "string" THEN value.v ELSE value.src

\* if (styles[s]) output += styles[s]
applyStyle(output, key) ==
    IF Truthy(stylesGet(key)) THEN output \o StringOf(stylesGet(key)) ELSE output

\* stylesToApply.forEach(s => { if (styles[s]) output += styles[s]; })
RECURSIVE applyStyles(_, _)
applyStyles(output, keys) ==
    IF keys = <<>> THEN output
    ELSE applyStyles(applyStyle(output, Head(keys).v), Tail(keys))

\* the body of messages.map(([text, color, style]) => ...)
formatMessage(m) ==
    LET afterColor == IF Truthy(m.color) THEN applyStyle("", m.color.v) ELSE ""
        stylesToApply == IF m.style.t = "array" THEN m.style.elems ELSE <<m.style>>
        afterStyles == IF Truthy(m.style) THEN applyStyles(afterColor, stylesToApply)
                       ELSE afterColor
    IN afterStyles \o m.text \o styles.reset

\* console.log(formatted.join(' '))
colorLine(messages) ==
    join([i \in 1..Len(messages) |-> formatMessage(messages[i])], " ")

Texts == {"Regular text", "Red text"}

ColorKeys == {Undefined, Str("red"), Str("purple"), Str("constructor")}

StyleKeys ==
    {Undefined, Str("bold"), Arr(<<Str("underline"), Str("bold")>>),
     Arr(<<Str("bold"), Str("blinking")>>), Arr(<<>>)}

ColorMessages == [text : Texts, color : ColorKeys, style : StyleKeys]

MessageLists == UNION {[1..n -> ColorMessages] : n \in 0..MaxMessages}

\* color(...messages) has been called and its body has not run yet; no
\* Migration is involved, and its variables keep the values given here
InitColor ==
    /\ \E messages \in MessageLists :
          call = [method |-> "color", messages |-> messages]
    /\ outcome = [status |-> "pending"]
    /\ printed = <<>>
    /\ table = "test_table"
    /\ fields = <<>>
    /\ constraints = <<>>
    /\ sent = <<>>
    /\ settled = [settled |-> "none"]
    /\ mig = [phase |-> "idle", invoked |-> <<>>]

color ==
    /\ call.method = "color"
    /\ outcome.status = "pending"
    /\ printed' = Append(printed, colorLine(call.messages))
    /\ outcome' = Returned(Undefined)
    /\ UNCHANGED <<table, fields, constraints, call, sent, settled, mig>>

NextColor == color

SpecColor == InitColor /\ [][NextColor]_vars

(***************************************************************************)
(* Vocabulary of the properties.                                           *)
(***************************************************************************)
\* a step taken by one of the methods other than migrate: migrate is the
\* only one to change mig
MethodStep == mig' = mig

ExecutorFailed == settled.settled = "rejected"

ExecutorSucceeded == settled.settled = "resolved"

QueryMethods ==
    {"createTable", "dropTable", "truncateTable", "addColumn", "dropColumn",
     "renameTable", "tableExists", "sql"}

Entry(name, type) == [fieldName |-> name, type |-> type]

\* the entries of q whose name is not name, in the order of q
RECURSIVE Without(_, _, _)
Without(q, name, n) ==
    IF n = 0 THEN <<>>
    ELSE IF q[n].fieldName = name THEN Without(q, name, n - 1)
    ELSE Append(Without(q, name, n - 1), q[n])

\* the elements of q separated by sep, built from the left
RECURSIVE Joined(_, _, _)
Joined(q, sep, n) ==
    IF n = 0 THEN ""
    ELSE IF n = 1 THEN q[1]
    ELSE Joined(q, sep, n - 1) \o sep \o q[n]

\* the text an error object carries under the name message
MessageText(error) == IF error.message.t = "string" THEN error.message.v ELSE ""

\* the text the catch blocks prefer: a non-empty sqlMessage, else the message
PreferredText(error) ==
    IF error.sqlMessage.t = "string" /\ error.sqlMessage.v # ""
    THEN error.sqlMessage.v
    ELSE MessageText(error)

(***************************************************************************)
(* C1: the table name and the field list change only in a successful       *)
(* addColumn (the entry is appended), a successful dropColumn (the entries *)
(* of that name are removed) and a successful renameTable (the name is     *)
(* replaced); every failed call and every other method, inside a migrate   *)
(* callback or not, leaves both exactly as they were.                      *)
(***************************************************************************)
C1_OnlySuccessfulCallsChangeState ==
    [][IF MethodStep /\ ExecutorSucceeded' /\ call'.method = "addColumn"
       THEN /\ fields' = Append(fields, Entry(call'.fieldName, call'.type))
            /\ table' = table
       ELSE IF MethodStep /\ ExecutorSucceeded' /\ call'.method = "dropColumn"
       THEN /\ fields' = Without(fields, call'.columnName, Len(fields))
            /\ table' = table
       ELSE IF MethodStep /\ ExecutorSucceeded' /\ call'.method = "renameTable"
       THEN /\ table' = call'.newTableName
            /\ fields' = fields
       ELSE /\ table' = table
            /\ fields' = fields]_vars

\* a dropColumn failed inside a migrate callback and the column is still there
C1_Witness ==
    /\ call.method = "dropColumn"
    /\ ExecutorFailed
    /\ outcome.status = "threw"
    /\ mig.phase = "running"
    /\ table = "new_test_table"
    /\ \E i \in DOMAIN fields : fields[i].fieldName = call.columnName

(***************************************************************************)
(* C2: the field list never holds two entries with the same field name.    *)
(***************************************************************************)
C2_FieldNamesUnique ==
    \A i, j \in DOMAIN fields : i # j => fields[i].fieldName # fields[j].fieldName

(***************************************************************************)
(* C3, as stated: when the executor call of a method fails with an error   *)
(* object, the method throws and the message it throws is the message text *)
(* of that error.                                                          *)
(***************************************************************************)
C3_Original ==
    (call.method \in QueryMethods /\ ExecutorFailed /\ ~IsNullish(settled.error))
        => /\ outcome.status = "threw"
           /\ outcome.message = MessageText(settled.error)

(***************************************************************************)
(* C3, amended: when the executor call of a method fails the method        *)
(* throws, and for an error object the message it throws is the error's    *)
(* sqlMessage when it carries a non-empty one, else its message text       *)
(* (empty when it has none).                                               *)
(***************************************************************************)
C3_FailurePropagates ==
    (call.method \in QueryMethods /\ ExecutorFailed)
        => /\ outcome.status = "threw"
           /\ ~IsNullish(settled.error) => outcome.message = PreferredText(settled.error)

\* a renameTable rejected with both a sqlMessage and a message
C3_Witness ==
    /\ call.method = "renameTable"
    /\ settled = Rejected(ErrObj(Str("ER_DUP_FIELDNAME"), Str("fail")))
    /\ outcome = Threw("ER_DUP_FIELDNAME")

\* s starts with prefix
StartsWith(s, prefix) ==
    Len(s) >= Len(prefix) /\ SubSeq(s, 1, Len(prefix)) = prefix

\* the statement of method m names t as its table
NamesTable(m, query, t) ==
    CASE m = "createTable" -> StartsWith(query, "CREATE TABLE " \o t \o " (")
      [] m = "dropTable" -> query = "DROP TABLE IF EXISTS " \o t
      [] m = "truncateTable" -> query = "TRUNCATE TABLE " \o t
      [] m = "addColumn" -> StartsWith(query, "ALTER TABLE " \o t \o " ADD COLUMN ")
      [] m = "dropColumn" -> StartsWith(query, "ALTER TABLE " \o t \o " DROP COLUMN ")
      [] m = "renameTable" -> StartsWith(query, "ALTER TABLE " \o t \o " RENAME TO ")
      [] m = "tableExists" ->
            query = "SELECT EXISTS (\n                    "
                      \o "SELECT 1 FROM information_schema.tables \n                    "
                      \o "WHERE table_name = '" \o t \o "'\n                )"

TableMethods == QueryMethods \ {"sql"}

(***************************************************************************)
(* C4: a renameTable(newName) whose executor call succeeded makes newName  *)
(* the table name, one whose executor call failed keeps the name, no other *)
(* call changes it, and the statement of every method names the table name *)
(* in force when it is called (that of the last successful renameTable)    *)
(* and no other.                                                           *)
(***************************************************************************)
C4_StatementsUseRenamedTable ==
    [][/\ (MethodStep /\ call'.method \in TableMethods)
            => /\ Len(sent') = 1
               /\ NamesTable(call'.method, sent'[1].query, table)
               /\ \A t \in TableNames \ {table} :
                      ~NamesTable(call'.method, sent'[1].query, t)
       /\ table' = IF MethodStep /\ call'.method = "renameTable" /\ ExecutorSucceeded'
                   THEN call'.newTableName
                   ELSE table]_vars

\* after a successful rename, a statement naming the new table was sent and
\* a later rename failed: the new name stays
C4_Witness ==
    /\ call.method = "renameTable"
    /\ call.newTableName = "test_table"
    /\ ExecutorFailed
    /\ table = "new_test_table"
    /\ sent[1].query = "ALTER TABLE new_test_table RENAME TO test_table"

\* the column clauses of the field list followed by the constraints
Clauses(fs, cs) ==
    [i \in 1..(Len(fs) + Len(cs)) |->
        IF i <= Len(fs)
        THEN fs[i].fieldName \o " " \o Joined(fs[i].type, " ", Len(fs[i].type))
        ELSE cs[i - Len(fs)]]

CreateStatement(t, fs, cs) ==
    "CREATE TABLE " \o t \o " (\n  "
      \o Joined(Clauses(fs, cs), ",\n  ", Len(fs) + Len(cs)) \o "\n);"

(***************************************************************************)
(* C5: createTable calls the executor exactly once, with the one string    *)
(* 'CREATE TABLE <table> (\n  ' + D + '\n);' where D is the column clauses *)
(* in the order of the field list followed by the constraints, joined by   *)
(* ',\n  ', and it changes neither table name, fields nor constraints.     *)
(***************************************************************************)
C5_CreateTableStatement ==
    [][(MethodStep /\ call'.method = "createTable")
            => /\ sent' = <<QueryCall(CreateStatement(table, fields, constraints), Undefined)>>
               /\ UNCHANGED <<table, fields, constraints>>]_vars

\* createTable after a rename, with the columns in insertion order and a constraint
C5_Witness ==
    /\ call.method = "createTable"
    /\ Len(sent) = 1
    /\ sent[1].query =
          "CREATE TABLE new_test_table (\n  name INT,\n  id VARCHAR(255) NOT NULL,\n  "
            \o "FOREIGN KEY (user_id) REFERENCES users(id)\n);"

(***************************************************************************)
(* C6: addColumn(name, types) calls the executor with exactly 'ALTER TABLE *)
(* <table> ADD COLUMN <name> <types joined by spaces>'; if the call        *)
(* succeeds (name, types) is appended at the end of the field list and     *)
(* getFieldDefinitions() then maps name to types, also when name was       *)
(* already there with other types.                                         *)
(***************************************************************************)
C6_AddColumn ==
    [][(MethodStep /\ call'.method = "addColumn")
            => /\ sent' = <<QueryCall("ALTER TABLE " \o table \o " ADD COLUMN "
                                        \o call'.fieldName \o " "
                                        \o Joined(call'.type, " ", Len(call'.type)),
                                      Undefined)>>
               /\ ExecutorSucceeded'
                    => /\ Len(fields') = Len(fields) + 1
                       /\ fields'[Len(fields')] = Entry(call'.fieldName, call'.type)
                       /\ SubSeq(fields', 1, Len(fields)) = fields
                       /\ call'.fieldName \in DOMAIN getFieldDefinitionsReturn'.val
                       /\ getFieldDefinitionsReturn'.val[call'.fieldName] = call'.type]_vars

\* a column was added under a name already present with other types
C6_Witness ==
    /\ call.method = "addColumn"
    /\ ExecutorSucceeded
    /\ fields[Len(fields)] = Entry(call.fieldName, call.type)
    /\ \E i \in 1..(Len(fields) - 1) :
          fields[i].fieldName = call.fieldName /\ fields[i].type # call.type
    /\ getFieldDefinitionsReturn.val[call.fieldName] = call.type

(***************************************************************************)
(* C7: dropColumn(name) calls the executor with exactly 'ALTER TABLE       *)
(* <table> DROP COLUMN <name>' whether or not name is a field; after a     *)
(* successful call getFieldDefinitions() has no key name and the other     *)
(* entries keep their types and order; when name was not a field the call  *)
(* returns normally and the field list is unchanged.                       *)
(***************************************************************************)
C7_DropColumn ==
    [][(MethodStep /\ call'.method = "dropColumn")
            => /\ sent' = <<QueryCall("ALTER TABLE " \o table \o " DROP COLUMN "
                                        \o call'.columnName, Undefined)>>
               /\ ExecutorSucceeded'
                    => /\ call'.columnName \notin DOMAIN getFieldDefinitionsReturn'.val
                       /\ fields' = Without(fields, call'.columnName, Len(fields))
                       /\ outcome' = Returned(Undefined)
                       /\ (\A i \in DOMAIN fields : fields[i].fieldName # call'.columnName)
                            => fields' = fields]_vars

\* a column that is not a field was dropped: the call returned, the full list is still there
C7_Witness ==
    /\ call.method = "dropColumn"
    /\ ExecutorSucceeded
    /\ outcome = Returned(Undefined)
    /\ Len(fields) = MaxFields
    /\ \A i \in DOMAIN fields : fields[i].fieldName # call.columnName

\* result.rows[0].exists === true
FirstRowExists(result) ==
    /\ result.t = "object"
    /\ "rows" \in DOMAIN result
    /\ result.rows.t = "array"
    /\ Len(result.rows.elems) >= 1
    /\ result.rows.elems[1] = RowObj(Bool(TRUE))

(***************************************************************************)
(* C8: for every value the executor resolves with, tableExists returns     *)
(* true when the first row of the result has exists equal to true and      *)
(* returns false, without throwing, for every other value.                 *)
(***************************************************************************)
C8_TableExistsIsBoolean ==
    (call.method = "tableExists" /\ ExecutorSucceeded)
        => outcome = Returned(Bool(FirstRowExists(settled.value)))

(***************************************************************************)
(* C9, as stated: migrate calls the callback exactly once, with the        *)
(* instance as only argument; it returns normally when the callback        *)
(* succeeds, and when the callback fails with an error object it throws    *)
(* an error with the message text of that error.                           *)
(***************************************************************************)
C9_Original ==
    /\ mig.phase = "running" => mig.invoked = <<<<Self>>>>
    /\ call.method = "migrate" => call.invoked = <<<<Self>>>>
    /\ (call.method = "migrate" /\ ExecutorSucceeded) => outcome = Returned(Undefined)
    /\ (call.method = "migrate" /\ ExecutorFailed /\ ~IsNullish(settled.error))
            => outcome = Threw(MessageText(settled.error))

(***************************************************************************)
(* C9, amended: migrate calls the callback exactly once, with the instance *)
(* as only argument; it returns normally when the callback succeeds, and   *)
(* when the callback fails it throws: for an error object, with the        *)
(* error's sqlMessage when it carries a non-empty one, else with its       *)
(* message text.                                                           *)
(***************************************************************************)
C9_MigrateRunsCallbackOnce ==
    /\ mig.phase = "running" => mig.invoked = <<<<Self>>>>
    /\ call.method = "migrate" => call.invoked = <<<<Self>>>>
    /\ (call.method = "migrate" /\ ExecutorSucceeded) => outcome = Returned(Undefined)
    /\ (call.method = "migrate" /\ ExecutorFailed)
            => /\ outcome.status = "threw"
               /\ ~IsNullish(settled.error) => outcome.message = PreferredText(settled.error)

\* a callback failed with both a sqlMessage and a message, and migrate threw
C9_Witness ==
    /\ call = [method |-> "migrate", invoked |-> <<<<Self>>>>]
    /\ settled = Rejected(ErrObj(Str("ER_DUP_FIELDNAME"), Str("fail")))
    /\ outcome = Threw("ER_DUP_FIELDNAME")

(***************************************************************************)
(* C10: getFieldDefinitions() called right after the constructor returns a *)
(* map with exactly the keys of the constructor's field map, each mapped   *)
(* to the same type tokens; getFieldDefinitions never calls the executor   *)
(* and changes no state.                                                   *)
(***************************************************************************)
C10_RoundTrip ==
    [][(MethodStep /\ call'.method = "getFieldDefinitions")
            => /\ sent' = <<>>
               /\ UNCHANGED <<table, fields, constraints, mig>>
               /\ call.method = "constructor"
                    => /\ outcome'.status = "returned"
                       /\ DOMAIN outcome'.value.val = Range(call.fieldDefinitions.keys)
                       /\ Range(outcome'.value.keys) = Range(call.fieldDefinitions.keys)
                       /\ \A k \in Range(call.fieldDefinitions.keys) :
                              outcome'.value.val[k] = call.fieldDefinitions.val[k]]_vars

\* the map of a two-column constructor call came back from getFieldDefinitions
C10_Witness ==
    /\ call.method = "getFieldDefinitions"
    /\ mig.phase = "idle"
    /\ sent = <<>>
    /\ outcome.status = "returned"
    /\ outcome.value.keys = <<"name", "id">>
    /\ outcome.value.val["name"] = <<"VARCHAR(255)", "NOT NULL">>
    /\ outcome.value.val["id"] = <<"INT">>
    /\ Len(fields) = 2

\* the escape code of a recognized key, nothing for any other key
CodeOf(key) == IF key \in DOMAIN styles THEN styles[key] ELSE ""

\* the codes of the keys of q, in order
RECURSIVE CodesOf(_, _)
CodesOf(q, n) == IF n = 0 THEN "" ELSE CodesOf(q, n - 1) \o CodeOf(q[n].v)

\* a segment: the code of the color, the codes of the styles, the text, the reset code
Segment(m) ==
    (IF m.color.t = "string" THEN CodeOf(m.color.v) ELSE "")
      \o (IF m.style.t = "string" THEN CodeOf(m.style.v)
          ELSE IF m.style.t = "array" THEN CodesOf(m.style.elems, Len(m.style.elems))
          ELSE "")
      \o m.text \o Esc \o "[0m"

(***************************************************************************)
(* C11: color(...messages) prints exactly one line, the segments joined by *)
(* single spaces; a segment is the escape code of the color if it is a     *)
(* recognized key, the escape codes of the recognized styles in the order  *)
(* given, the text and the reset code; a key that is not recognized        *)
(* contributes nothing.                                                    *)
(***************************************************************************)
C11_ColorLine ==
    (call.method = "color" /\ outcome.status = "returned")
        => printed = <<Joined([i \in 1..Len(call.messages) |-> Segment(call.messages[i])],
                              " ", Len(call.messages))>>

\* the same, for messages whose keys are not members of Object.prototype
C11_ColorLineOwnKeys ==
    (/\ call.method = "color"
     /\ outcome.status = "returned"
     /\ \A i \in 1..Len(call.messages) : call.messages[i].color # Str("constructor"))
        => printed = <<Joined([i \in 1..Len(call.messages) |-> Segment(call.messages[i])],
                              " ", Len(call.messages))>>

(***************************************************************************)
(* C12: every call of createTable, dropTable, truncateTable, addColumn,    *)
(* dropColumn, renameTable, tableExists or sql makes exactly one executor  *)
(* call, the statement of that very call, whether the executor succeeds or *)
(* fails (no retry, no further statement), so that n calls in a row make n *)
(* executor calls in the order of the calls; sql passes its query and its  *)
(* parameters as they are and returns the executor's result as it is.      *)
(***************************************************************************)
C12_OneExecutorCallPerInvocation ==
    [][(MethodStep /\ call'.method \in QueryMethods)
            => /\ Len(sent') = 1
               /\ settled'.settled \in {"resolved", "rejected"}
               /\ call'.method \in TableMethods
                    => /\ NamesTable(call'.method, sent'[1].query, table)
                       /\ sent'[1].params = Undefined
               /\ call'.method = "sql"
                    => /\ sent'[1].query = call'.query
                       /\ sent'[1].params = call'.params
                       /\ ExecutorSucceeded' => outcome' = Returned(settled'.value)
                       /\ ExecutorFailed' => outcome'.status = "threw"]_vars

\* a sql call with parameters was rejected: one executor call, not repeated
C12_Witness ==
    /\ call.method = "sql"
    /\ call.params = Arr(<<Num(1)>>)
    /\ ExecutorFailed
    /\ sent = <<[query |-> "DELETE FROM test WHERE id = $1", params |-> Arr(<<Num(1)>>)]>>
    /\ outcome.status = "threw"

====
